---- MODULE Spec2Model ----
(***************************************************************************)
(* A model of the assertion / contest bookkeeping of SHANGRLA's Audit.py:  *)
(* Assertion.overstatement, Assertion.overstatement_assorter,              *)
(* Assertion.find_margin and the class-level batch operation               *)
(* Assertion.set_all_p_values; Assorter.__init__; the aggregates           *)
(* assorter_mean, assorter_sum and assorter_margin; set_all_margins; the   *)
(* assertion factories and make_all_assertions; Assertion.sample_size;     *)
(* and Contest.initial_sample_size and Contest.new_sample_size.            *)
(*                                                                         *)
(* Real numbers are exact rationals <<n, d>> (d > 0, lowest terms).        *)
(* NaN is <<0, 0>> and Python's None is the empty tuple.  p-values and     *)
(* risk limits are integers in units of 1/100.                             *)
(***************************************************************************)
EXTENDS Integers, Sequences, FiniteSets, TLC

VARIABLES asrt, cont, call, result, fed

vars == <<asrt, cont, call, result, fed>>

-----------------------------------------------------------------------------
(* Bounds of the model.                                                    *)

\* longest mvr/cvr sample handed to set_all_p_values
MaxSample == 1

\* longest CVR list handed to find_margin
MaxCvrList == 2

-----------------------------------------------------------------------------
(* Exact rational arithmetic standing for Python floats.                   *)

None == <<>>
NaN == <<0, 0>>

Abs(x) == IF x < 0 THEN -x ELSE x

RECURSIVE Gcd(_, _)
Gcd(a, b) == IF b = 0 THEN a ELSE Gcd(b, a % b)

\* n/d in lowest terms with a positive denominator (d # 0)
Frac(n, d) ==
    LET s == IF d < 0 THEN -1 ELSE 1
        g == Gcd(Abs(n), Abs(d))
    IN  <<(s * n) \div g, (s * d) \div g>>

IsNum(x) == x # None /\ x # NaN

RInt(n) == <<n, 1>>
RAdd(x, y) == Frac(x[1] * y[2] + y[1] * x[2], x[2] * y[2])
RSub(x, y) == Frac(x[1] * y[2] - y[1] * x[2], x[2] * y[2])
RMul(x, y) == Frac(x[1] * y[1], x[2] * y[2])
\* y # 0
RDiv(x, y) == Frac(x[1] * y[2], x[2] * y[1])
RLe(x, y) == x[1] * y[2] <= y[1] * x[2]
RLt(x, y) == x[1] * y[2] < y[1] * x[2]

Half == <<1, 2>>
Zero == <<0, 1>>
One == <<1, 1>>
Two == <<2, 1>>

\* the sum of a sequence of rationals, by halves
RECURSIVE RSum(_)
RSum(s) ==
    IF s = <<>> THEN Zero
    ELSE IF Len(s) = 1 THEN RAdd(s[1], Zero)
    ELSE RAdd(RSum(SubSeq(s, 1, Len(s) \div 2)),
              RSum(SubSeq(s, Len(s) \div 2 + 1, Len(s))))

RECURSIVE IMax(_)
IMax(s) == IF s = <<>> THEN 0
           ELSE LET m == IMax(Tail(s)) IN IF Head(s) > m THEN Head(s) ELSE m

\* all sequences over S of length at most n
SeqsUpTo(S, n) == UNION {[1..k -> S] : k \in 0..n}

-----------------------------------------------------------------------------
(* Audit constants.                                                        *)

POLLING == "POLLING"
BALLOT_COMPARISON == "BALLOT_COMPARISON"
\* an audit type the code does not support (Audit.py's "TO DO" list)
BATCH_COMPARISON == "BATCH_COMPARISON"

AUDIT_TYPES == {POLLING, BALLOT_COMPARISON}

\* Contest.__init__'s default risk limit, 0.05, in units of 1/100
DefaultRiskLimit == 5

-----------------------------------------------------------------------------
(* The contests and assertions under audit.  Contest c1 is a plurality     *)
(* contest with reported winner A and losers B, C; contest c2 is a         *)
(* supermajority contest that A wins with a share of 3/5.                  *)

Contests == {"c1", "c2"}
Candidates == {"A", "B", "C"}

ContestSeq == <<"c1", "c2">>

\* the keys of contests[c].assertions, in dict order
AssertionSeq(c) == IF c = "c1" THEN <<"A v B", "A v C">> ELSE <<"A v all">>

Range(s) == {s[i] : i \in 1..Len(s)}

AssertionsOf(c) == Range(AssertionSeq(c))
AllAssertions == UNION {AssertionsOf(c) : c \in Contests}
ContestOf(a) == CHOOSE c \in Contests : a \in AssertionsOf(c)

ShareToWin == <<3, 5>>

-----------------------------------------------------------------------------
(* Ballot records (class CVR, an external collaborator): a phantom flag,   *)
(* the contests on the card and the candidates marked in each.             *)

MarkSets == {{}, {"A"}, {"B"}, {"C"}, {"A", "B"}}

Ballots ==
    {b \in [phantom : BOOLEAN, has : [Contests -> BOOLEAN],
            marks : [Contests -> MarkSets]] :
        \A c \in Contests : ~b.has[c] => b.marks[c] = {}}

\* the ballots that show no contest other than c
BallotsFor(c) == {b \in Ballots : \A o \in Contests \ {c} : ~b.has[o]}

HasContest(b, c) == b.has[c]

GetVoteFor(b, c, cand) == IF b.has[c] /\ cand \in b.marks[c] THEN 1 ELSE 0

HasOneVote(b, c, cands) == Cardinality(b.marks[c] \cap cands) = 1

AsVote(v) == IF v # 0 THEN 1 ELSE 0

-----------------------------------------------------------------------------
(* Assorters.                                                              *)

AssorterOf(a) ==
    CASE a = "A v B" ->
           [contest_id |-> "c1", kind |-> "PLURALITY", winner |-> "A",
            loser |-> "B", upper_bound |-> One]
      [] a = "A v C" ->
           [contest_id |-> "c1", kind |-> "PLURALITY", winner |-> "A",
            loser |-> "C", upper_bound |-> One]
      [] OTHER ->
           [contest_id |-> "c2", kind |-> "SUPERMAJORITY", winner |-> "A",
            loser |-> "all", upper_bound |-> RDiv(One, RMul(Two, ShareToWin))]

UpperBound(a) == AssorterOf(a).upper_bound

\* the plurality scorer: (vote for winner - vote for loser + 1)/2
PluralityAssort(c, winr, losr, b) ==
    Frac(AsVote(GetVoteFor(b, c, winr)) - AsVote(GetVoteFor(b, c, losr)) + 1, 2)

\* the supermajority scorer
SupermajorityAssort(c, winner, cands, b) ==
    IF HasOneVote(b, c, cands)
    THEN RDiv(RInt(AsVote(GetVoteFor(b, c, winner))), RMul(Two, ShareToWin))
    ELSE Half

\* Assertion.assort: delegates to the assorter
Assort(a, b) ==
    LET s == AssorterOf(a)
    IN  IF s.kind = "PLURALITY"
        THEN PluralityAssort(s.contest_id, s.winner, s.loser, b)
        ELSE SupermajorityAssort(s.contest_id, s.winner, Candidates, b)

-----------------------------------------------------------------------------
(* Results of calls: a status ("ok" or the exception raised), and the      *)
(* value returned (a rational in value, or an integer in p_max).           *)

Ok(v) == [status |-> "ok", value |-> v, p_max |-> 0]
OkP(p) == [status |-> "ok", value |-> None, p_max |-> p]
Raise(e) == [status |-> e, value |-> None, p_max |-> 0]

-----------------------------------------------------------------------------
(* Assertion.overstatement and Assertion.overstatement_assorter.           *)

\* mutant: the phantom test on the cvr inverted
CvrAssort_Inverted(a, cvr) == IF ~cvr.phantom THEN Half ELSE Assort(a, cvr)

\* the value the cvr contributes when use_style is true
CvrAssort(a, cvr) == IF cvr.phantom THEN Half ELSE Assort(a, cvr)

\* mutant: an mvr without the contest scored as it stands (a non-vote)
MvrAssort_NonVote(a, mvr) == IF mvr.phantom THEN Zero ELSE Assort(a, mvr)

\* the value the mvr contributes when use_style is true
MvrAssort(a, mvr) ==
    IF mvr.phantom \/ ~HasContest(mvr, ContestOf(a)) THEN Zero ELSE Assort(a, mvr)

\* the value the mvr contributes when use_style is false
MvrAssortNoStyle(a, mvr) == IF ~mvr.phantom THEN Assort(a, mvr) ELSE Zero

\* mutant: no error for a cvr without the contest
Overstatement_NoRaise(a, mvr, cvr, use_style) ==
    IF ~use_style
    THEN Ok(RSub(Assort(a, cvr), MvrAssortNoStyle(a, mvr)))
    ELSE Ok(RSub(CvrAssort(a, cvr), MvrAssort(a, mvr)))

Overstatement(a, mvr, cvr, use_style) ==
    IF ~use_style
    THEN Ok(RSub(Assort(a, cvr), MvrAssortNoStyle(a, mvr)))
    ELSE IF HasContest(cvr, ContestOf(a))
         THEN Ok(RSub(CvrAssort(a, cvr), MvrAssort(a, mvr)))
         ELSE Raise("ValueError")

\* mutant: the margin not divided by the upper bound
OverstatementScale_RawMargin(o, u, margin) ==
    IF margin = None THEN Raise("TypeError")
    ELSE IF margin = NaN THEN Ok(NaN)
    ELSE IF RSub(Two, margin) = Zero THEN Raise("ZeroDivisionError")
    ELSE Ok(RDiv(RSub(One, RDiv(o, u)), RSub(Two, margin)))

\* (1 - o/u)/(2 - margin/u) for an overstatement o and a stored margin
OverstatementScale(o, u, margin) ==
    IF margin = None THEN Raise("TypeError")
    ELSE IF margin = NaN THEN Ok(NaN)
    ELSE IF RSub(Two, RDiv(margin, u)) = Zero THEN Raise("ZeroDivisionError")
    ELSE Ok(RDiv(RSub(One, RDiv(o, u)), RSub(Two, RDiv(margin, u))))

OverstatementAssorter(a, margin, mvr, cvr, use_style) ==
    LET o == Overstatement(a, mvr, cvr, use_style)
    IN  IF o.status # "ok" THEN o
        ELSE OverstatementScale(o.value, UpperBound(a), margin)

-----------------------------------------------------------------------------
(* Assertion.assorter_mean, assorter_margin and find_margin.               *)

\* mutant: every card kept, whatever use_style says
FilterStyle_KeepsAll(cvr_list, c, use_style) == cvr_list

RECURSIVE FilterStyle(_, _, _)
FilterStyle(cvr_list, c, use_style) ==
    IF cvr_list = <<>> THEN <<>>
    ELSE IF Len(cvr_list) = 1
    THEN (IF ~use_style \/ HasContest(cvr_list[1], c) THEN cvr_list ELSE <<>>)
    ELSE FilterStyle(SubSeq(cvr_list, 1, Len(cvr_list) \div 2), c, use_style)
         \o FilterStyle(SubSeq(cvr_list, Len(cvr_list) \div 2 + 1,
                               Len(cvr_list)), c, use_style)

\* numpy's mean: NaN for an empty list
AssorterMean(a, cvr_list, use_style) ==
    LET kept == FilterStyle(cvr_list, ContestOf(a), use_style)
        vals == [i \in 1..Len(kept) |-> Assort(a, kept[i])]
    IN  IF kept = <<>> THEN NaN ELSE RDiv(RSum(vals), RInt(Len(kept)))

\* mutant: twice the mean, not reduced by 1
AssorterMargin_Unshifted(a, cvr_list, use_style) ==
    LET m == AssorterMean(a, cvr_list, use_style)
    IN  IF m = NaN THEN NaN ELSE RMul(Two, m)

\* line 165: 2*mean - 1
AssorterMargin(a, cvr_list, use_style) ==
    LET m == AssorterMean(a, cvr_list, use_style)
    IN  IF m = NaN THEN NaN ELSE RSub(RMul(Two, m), One)

\* find_margin: the warning of line 327 formats the undefined name `a`, so
\* a mean below 1/2 ends the call with a NameError before the margin is set
FindMarginResult(a, cvr_list, use_style) ==
    LET amean == AssorterMean(a, cvr_list, use_style)
    IN  IF amean # NaN /\ RLt(amean, Half) THEN Raise("NameError")
        ELSE Ok(AssorterMargin(a, cvr_list, use_style))

-----------------------------------------------------------------------------
(* State.                                                                  *)
(*   asrt[a]  the Assertion object: margin, p_value, p_history, proved     *)
(*   cont[c]  the Contest object: audit_type, use_style, risk_limit and    *)
(*            the p_values, proved and max_p that set_all_p_values sets    *)
(*            (max_p is NoMaxP until the attribute is first assigned)      *)
(*   call     the last call made and its arguments                         *)
(*   result   what that call returned or raised                            *)
(*   fed      the sequences that call handed to the sequential test,       *)
(*            keyed by assertion                                           *)

NoMaxP == -1

EmptyMap == [x \in {} |-> 0]

BlankBallot ==
    [phantom |-> FALSE, has |-> [c \in Contests |-> FALSE],
     marks |-> [c \in Contests |-> {}]]

NoCall ==
    [op |-> "new", a |-> "A v B", mvr |-> BlankBallot, cvr |-> BlankBallot,
     use_style |-> FALSE, contests |-> <<>>, mvr_sample |-> <<>>,
     cvr_sample |-> <<>>, cvr_given |-> FALSE, cvr_list |-> <<>>]

\* Assertion.__init__ with its defaults
NewAssertion(margin) ==
    [margin |-> margin, p_value |-> 100, p_history |-> <<>>, proved |-> FALSE]

\* Contest.__init__; p_values, proved and max_p do not exist yet
NewContest(audit_type, use_style) ==
    [audit_type |-> audit_type, use_style |-> use_style,
     risk_limit |-> DefaultRiskLimit,
     p_values |-> EmptyMap, proved |-> EmptyMap, max_p |-> NoMaxP]

\* the margins find_margin can store for assertion a from CVR lists of at
\* most MaxCvrList cards
StoredMargins(a) ==
    {FindMarginResult(a, l, s).value :
        <<l, s>> \in {ls \in SeqsUpTo(BallotsFor(ContestOf(a)), MaxCvrList) \X BOOLEAN :
                        FindMarginResult(a, ls[1], ls[2]).status = "ok"}}

\* dict.update({k: v})
MapPut(f, k, v) == [x \in DOMAIN f \cup {k} |-> IF x = k THEN v ELSE f[x]]

\* mutant: the running maximum replaced by the latest value
IMax2_Latest(x, y) == y

IMax2(x, y) == IF x > y THEN x ELSE y

-----------------------------------------------------------------------------
(* The sequential test (class NonnegMean, an external collaborator):       *)
(* test(d) returns a p-value and a p-history with one entry per            *)
(* observation.  Which values it returns is left open: an oracle T gives,  *)
(* for each assertion, the p-value and the history entries of this call.   *)

TestTest(T, a, d) ==
    [p_value |-> T[a].p, p_history |-> [i \in 1..Len(d) |-> T[a].h[i]]]

\* the test's answer when it is not asked
NoAnswer == [p |-> 100, h |-> <<>>]

\* the oracles for one call: for each assertion of As a p-value of PV and
\* n history entries of HV, of which the test returns as many as it is
\* handed observations
Oracles(As, n, PV, HV) ==
    {[a \in AllAssertions |->
         IF a \in As THEN [p |-> f[a], h |-> g[a]] ELSE NoAnswer] :
        f \in [As -> PV], g \in [As -> [1..n -> HV]]}

-----------------------------------------------------------------------------
(* Assertion.set_all_p_values.                                             *)

\* Lines 710-712, the list comprehension of a comparison contest, card by
\* card from card i on.  For each card the filter reads cvr_sample[i] when
\* use_style is set, and a card that passes the filter is handed to
\* overstatement_assorter(mvr_sample[i], cvr_sample[i], margin,
\* use_style=use_style): margin lands on the parameter use_style, which the
\* keyword names again, so Python raises TypeError at the first card kept.
\* With cvr_sample None, cvr_sample[i] is a TypeError as well.
RECURSIVE ScanComparison(_, _, _, _, _, _)
ScanComparison(i, c, use_style, mvr_sample, cvr_sample, cvr_given) ==
    IF i > Len(mvr_sample) THEN "ok"
    ELSE IF ~cvr_given THEN "TypeError"
    ELSE IF i > Len(cvr_sample) THEN "IndexError"
    ELSE IF ~use_style \/ HasContest(cvr_sample[i], c) THEN "TypeError"
    ELSE ScanComparison(i + 1, c, use_style, mvr_sample, cvr_sample, cvr_given)

\* line 713: u = 2/(2 - margin/upper_bound)
ComparisonBound(a, margin) ==
    IF margin = None THEN Raise("TypeError")
    ELSE IF margin = NaN THEN Ok(NaN)
    ELSE IF RSub(Two, RDiv(margin, UpperBound(a))) = Zero
         THEN Raise("ZeroDivisionError")
    ELSE Ok(RDiv(Two, RSub(Two, RDiv(margin, UpperBound(a)))))

\* Lines 709-718: the sequence d for assertion a of contest c (the value of
\* the result), or the exception raised on the way to the test.
DataFor(c, a, margin, audit_type, use_style, mvr_sample, cvr_sample, cvr_given) ==
    IF audit_type = BALLOT_COMPARISON
    THEN IF ScanComparison(1, c, use_style, mvr_sample, cvr_sample, cvr_given) # "ok"
         THEN Raise(ScanComparison(1, c, use_style, mvr_sample, cvr_sample, cvr_given))
         ELSE IF ComparisonBound(a, margin).status # "ok"
              THEN ComparisonBound(a, margin)
              ELSE Ok(<<>>)
    ELSE IF audit_type = POLLING
    THEN Ok([i \in 1..Len(mvr_sample) |-> Assort(a, mvr_sample[i])])
    ELSE Raise("NotImplementedError")

\* mutant: proved recomputed from the current p-value alone
NewProved_NotSticky(p_value, risk_limit, proved) == p_value <= risk_limit

\* mutant: a p-value equal to the risk limit does not prove the assertion
NewProved_Strict(p_value, risk_limit, proved) == (p_value < risk_limit) \/ proved

\* lines 721-723
NewProved(p_value, risk_limit, proved) == (p_value <= risk_limit) \/ proved

\* mutant: the comparison bound u of line 713 stored over the margin
UpdateAssertion_StoresBound(st, c, a, d, T) ==
    LET t == TestTest(T, a, d)
        pr == NewProved(t.p_value, st.cont[c].risk_limit, st.asrt[a].proved)
    IN  [st EXCEPT !.asrt[a].p_value = t.p_value,
                   !.asrt[a].p_history = t.p_history,
                   !.asrt[a].proved = pr,
                   !.asrt[a].margin = IF st.cont[c].audit_type = POLLING
                                      THEN UpperBound(a)
                                      ELSE ComparisonBound(a, @).value,
                   !.cont[c].p_values = MapPut(@, a, t.p_value),
                   !.cont[c].proved = MapPut(@, a, IF pr THEN 1 ELSE 0),
                   !.contest_max_p = IMax2(@, t.p_value),
                   !.fed = MapPut(@, a, d)]

\* lines 719-726 for one assertion, on the running state st
UpdateAssertion(st, c, a, d, T) ==
    LET t == TestTest(T, a, d)
        pr == NewProved(t.p_value, st.cont[c].risk_limit, st.asrt[a].proved)
    IN  [st EXCEPT !.asrt[a].p_value = t.p_value,
                   !.asrt[a].p_history = t.p_history,
                   !.asrt[a].proved = pr,
                   !.cont[c].p_values = MapPut(@, a, t.p_value),
                   !.cont[c].proved = MapPut(@, a, IF pr THEN 1 ELSE 0),
                   !.contest_max_p = IMax2(@, t.p_value),
                   !.fed = MapPut(@, a, d)]

\* one pass of the loop of lines 705-726: assertion a with the outcome r of
\* building its sequence
StepAssertion(st, c, a, r, T) ==
    IF r.status # "ok" THEN [st EXCEPT !.status = r.status]
    ELSE UpdateAssertion(st, c, a, r.value, T)

\* the loop of lines 705-726 over the assertions as of contest c
RECURSIVE DoAssertions(_, _, _, _, _, _, _)
DoAssertions(st, c, as, mvr_sample, cvr_sample, cvr_given, T) ==
    IF as = <<>> \/ st.status # "ok" THEN st
    ELSE DoAssertions(
             StepAssertion(st, c, Head(as),
                 DataFor(c, Head(as), st.asrt[Head(as)].margin,
                         st.cont[c].audit_type, st.cont[c].use_style,
                         mvr_sample, cvr_sample, cvr_given), T),
             c, Tail(as), mvr_sample, cvr_sample, cvr_given, T)

\* lines 727-728, reached when no assertion of the contest raised
RollUp(st, c) ==
    IF st.status # "ok" THEN st
    ELSE [st EXCEPT !.cont[c].max_p = st.contest_max_p,
                    !.p_max = IMax2(st.p_max, st.contest_max_p)]

\* lines 701-703
EnterContest(st, c) ==
    [st EXCEPT !.cont[c].p_values = EmptyMap,
               !.cont[c].proved = EmptyMap,
               !.contest_max_p = 0]

\* lines 701-728 for one contest
DoContest(st, c, mvr_sample, cvr_sample, cvr_given, T) ==
    RollUp(DoAssertions(EnterContest(st, c), c, AssertionSeq(c), mvr_sample,
                        cvr_sample, cvr_given, T), c)

\* the loop of line 700 over the contests cs
RECURSIVE DoContests(_, _, _, _, _, _)
DoContests(st, cs, mvr_sample, cvr_sample, cvr_given, T) ==
    IF cs = <<>> \/ st.status # "ok" THEN st
    ELSE DoContests(DoContest(st, Head(cs), mvr_sample, cvr_sample, cvr_given, T),
                    Tail(cs), mvr_sample, cvr_sample, cvr_given, T)

\* mutant: the length assertion dropped
LengthsDiffer_Unchecked(mvr_sample, cvr_sample, cvr_given) == FALSE

\* lines 697-698
LengthsDiffer(mvr_sample, cvr_sample, cvr_given) ==
    cvr_given /\ Len(mvr_sample) # Len(cvr_sample)

\* the running state at entry
EntryState ==
    [asrt |-> asrt, cont |-> cont, fed |-> EmptyMap, p_max |-> 0,
     contest_max_p |-> 0, status |-> "ok"]

\* the running state when the call returns or raises
ExitState(cs, mvr_sample, cvr_sample, cvr_given, T) ==
    IF LengthsDiffer(mvr_sample, cvr_sample, cvr_given)
    THEN [EntryState EXCEPT !.status = "AssertionError"]
    ELSE DoContests(EntryState, cs, mvr_sample, cvr_sample, cvr_given, T)

SetAllPValues(cs, mvr_sample, cvr_sample, cvr_given, T) ==
    \E st \in {ExitState(cs, mvr_sample, cvr_sample, cvr_given, T)} :
        /\ asrt' = st.asrt
        /\ cont' = st.cont
        /\ fed' = st.fed
        /\ call' = [NoCall EXCEPT !.op = "set_all_p_values", !.contests = cs,
                                  !.mvr_sample = mvr_sample,
                                  !.cvr_sample = cvr_sample,
                                  !.cvr_given = cvr_given]
        /\ result' = IF st.status = "ok" THEN OkP(st.p_max) ELSE Raise(st.status)

\* Assertion.find_margin as an operation on the stored assertion
FindMargin(a, cvr_list, use_style) ==
    LET r == FindMarginResult(a, cvr_list, use_style)
    IN  /\ asrt' = IF r.status = "ok" THEN [asrt EXCEPT ![a].margin = r.value]
                   ELSE asrt
        /\ call' = [NoCall EXCEPT !.op = "find_margin", !.a = a,
                                  !.cvr_list = cvr_list, !.use_style = use_style]
        /\ result' = IF r.status = "ok" THEN Ok(None) ELSE r
        /\ fed' = EmptyMap
        /\ UNCHANGED cont

-----------------------------------------------------------------------------
(* Spec: the audit's state under any sequence of find_margin and           *)
(* set_all_p_values calls.  Contest c1 is a polling audit; contest c2 is   *)
(* a polling audit, a ballot-comparison audit or an audit of a type the    *)
(* code does not implement.                                                *)

\* a card with both contests, voted for A in each
BallotA ==
    [phantom |-> FALSE, has |-> [c \in Contests |-> TRUE],
     marks |-> [c \in Contests |-> {"A"}]]

\* a card with contest c1 only, voted for B
BallotB1 ==
    [phantom |-> FALSE, has |-> [c \in Contests |-> c = "c1"],
     marks |-> [c \in Contests |-> IF c = "c1" THEN {"B"} ELSE {}]]


\* p-values the test may return: at the risk limit and above it
PVals == {DefaultRiskLimit, 20}

\* p-history entries the test may return
HVals == {100}

\* the dicts of contests a caller may pass: every ordered selection
ContestOrders ==
    {cs \in SeqsUpTo(Contests, Cardinality(Contests)) :
        \A i, j \in 1..Len(cs) : i # j => cs[i] # cs[j]}

\* the assertions a call on contests cs can reach
AssertionsIn(cs) == UNION {AssertionsOf(cs[i]) : i \in 1..Len(cs)}

Init ==
    /\ asrt = [a \in AllAssertions |-> NewAssertion(None)]
    /\ \E t \in {BALLOT_COMPARISON, BATCH_COMPARISON} :
          cont = [c \in Contests |->
                    IF c = "c1" THEN NewContest(POLLING, FALSE)
                    ELSE NewContest(t, TRUE)]
    /\ call = NoCall
    /\ result = Ok(None)
    /\ fed = EmptyMap

\* samples of mvrs alone (cvr_sample=None), and paired with cvrs that all
\* contain contest c2 or all lack it
CallSetAllPValues ==
    \E cs \in ContestOrders :
    \E mvr_sample \in SeqsUpTo({BallotA}, MaxSample) :
    \E cvr_given \in BOOLEAN :
    \E cvr_sample \in IF cvr_given
                      THEN SeqsUpTo({BallotA}, MaxSample)
                           \cup SeqsUpTo({BallotB1}, MaxSample)
                      ELSE {<<>>} :
    \E T \in Oracles(IF LengthsDiffer(mvr_sample, cvr_sample, cvr_given)
                     THEN {} ELSE AssertionsIn(cs),
                     Len(mvr_sample), PVals, HVals) :
        SetAllPValues(cs, mvr_sample, cvr_sample, cvr_given, T)

CallFindMargin ==
    \E a \in AssertionsOf("c2") :
    \E cvr_list \in {<<BallotA>>} :
        FindMargin(a, cvr_list, FALSE)

Next == CallSetAllPValues \/ CallFindMargin

Spec == Init /\ [][Next]_vars

-----------------------------------------------------------------------------
(* SpecOver: the pure functions overstatement and overstatement_assorter,  *)
(* applied to every assertion, every mvr/cvr pair of BallotsFor and every  *)
(* margin that the constructor or find_margin can have stored.             *)

InitOver ==
    /\ \E a \in AllAssertions :
       \E m \in StoredMargins(a) \cup {None} :
       \E mvr \in BallotsFor(ContestOf(a)), cvr \in BallotsFor(ContestOf(a)) :
       \E us \in BOOLEAN :
          /\ asrt = [x \in AllAssertions |->
                        NewAssertion(IF x = a THEN m ELSE None)]
          /\ call = [NoCall EXCEPT !.a = a, !.mvr = mvr, !.cvr = cvr,
                                   !.use_style = us]
    /\ cont = [c \in Contests |-> NewContest(BALLOT_COMPARISON, TRUE)]
    /\ result = Ok(None)
    /\ fed = EmptyMap

CallOverstatement ==
    /\ call.op = "new"
    /\ call' = [call EXCEPT !.op = "overstatement"]
    /\ result' = Overstatement(call.a, call.mvr, call.cvr, call.use_style)
    /\ UNCHANGED <<asrt, cont, fed>>

CallOverstatementAssorter ==
    /\ call.op = "new"
    /\ call' = [call EXCEPT !.op = "overstatement_assorter"]
    /\ result' = OverstatementAssorter(call.a, asrt[call.a].margin, call.mvr,
                                       call.cvr, call.use_style)
    /\ UNCHANGED <<asrt, cont, fed>>

NextOver == CallOverstatement \/ CallOverstatementAssorter

SpecOver == InitOver /\ [][NextOver]_vars

-----------------------------------------------------------------------------
(* Claims about overstatement and overstatement_assorter (SpecOver).       *)

OverCalled == call.op = "overstatement"
OverAssorterCalled == call.op = "overstatement_assorter"
CallContest == ContestOf(call.a)

C8_MissingContestRaises ==
    OverCalled =>
      /\ (call.use_style /\ ~call.cvr.has[CallContest]) =>
            result = Raise("ValueError")
      /\ ~call.use_style => result.status = "ok"

C8_Witness ==
    /\ OverCalled
    /\ call.use_style
    /\ ~call.cvr.has[CallContest]
    /\ call.mvr.has[CallContest]
    /\ result.status = "ValueError"

\* C9 as stated: identical mvr and cvr, neither phantom, give overstatement 0
\* for both values of use_style.
C9_AgreeIsZero_Original ==
    (OverCalled /\ call.mvr = call.cvr /\ ~call.cvr.phantom) =>
        result = Ok(Zero)

\* C9 amended: identical mvr and cvr, neither phantom, give overstatement 0
\* when use_style is false, and when use_style is true and the record
\* contains the contest.
C9_AgreeIsZero ==
    (/\ OverCalled
     /\ call.mvr = call.cvr
     /\ ~call.cvr.phantom
     /\ (call.use_style => call.cvr.has[CallContest])) =>
        result = Ok(Zero)

C9_Witness ==
    /\ OverCalled
    /\ call.mvr = call.cvr
    /\ ~call.cvr.phantom
    /\ call.cvr.marks[CallContest] = {"A"}
    /\ call.use_style
    /\ result = Ok(Zero)

CallU == UpperBound(call.a)
CallMargin == asrt[call.a].margin
CallOver == Overstatement(call.a, call.mvr, call.cvr, call.use_style).value
\* 2 - margin/u
CallDenominator == RSub(Two, RDiv(CallMargin, CallU))

\* C10 as stated: overstatement_assorter is (1 - o/u)/(2 - margin/u) and lies
\* in [0, 2u/(2 - margin/u)].
C10_AssorterRange_Original ==
    (OverAssorterCalled /\ result.status = "ok" /\ IsNum(CallMargin)) =>
      /\ result.value = RDiv(RSub(One, RDiv(CallOver, CallU)), CallDenominator)
      /\ RLe(Zero, result.value)
      /\ RLe(result.value, RDiv(RMul(Two, CallU), CallDenominator))

\* C10 amended: overstatement_assorter is (1 - o/u)/(2 - margin/u); the
\* overstatement o lies in [-u, u] and the value in [0, 2/(2 - margin/u)].
C10_AssorterRange ==
    (OverAssorterCalled /\ result.status = "ok" /\ IsNum(CallMargin)) =>
      /\ result.value = RDiv(RSub(One, RDiv(CallOver, CallU)), CallDenominator)
      /\ RLe(RSub(Zero, CallU), CallOver) /\ RLe(CallOver, CallU)
      /\ RLe(Zero, result.value)
      /\ RLe(result.value, RDiv(Two, CallDenominator))

\* the largest value: an understatement of u on the supermajority assertion,
\* whose upper bound is 5/6, with a positive margin
C10_Witness ==
    /\ OverAssorterCalled
    /\ result.status = "ok"
    /\ call.a = "A v all"
    /\ IsNum(CallMargin) /\ RLt(Zero, CallMargin)
    /\ CallOver = RSub(Zero, CallU)
    /\ result.value = RDiv(Two, CallDenominator)

-----------------------------------------------------------------------------
(* Claims about set_all_p_values (Spec).                                   *)

PValuesCalled == call.op = "set_all_p_values"
Completed == PValuesCalled /\ result.status = "ok"
CalledContests == Range(call.contests)

AllProved(c) == \A a \in AssertionsOf(c) : asrt[a].proved

\* the largest element of a nonempty set of integers
SetMax(S) == CHOOSE x \in S : \A y \in S : y <= x

\* C1: once an assertion's proved flag is true it is true after every later
\* call; no p-value update resets it.
C1_ProvedMonotonic ==
    [][\A a \in AllAssertions : asrt[a].proved => asrt'[a].proved]_vars

\* an assertion still proved after a later call returned a p-value above
\* the risk limit
C1_Witness ==
    /\ Completed
    /\ \E a \in AllAssertions :
          /\ asrt[a].proved
          /\ asrt[a].p_value > cont[ContestOf(a)].risk_limit

\* C2 as stated: for every contest whose max_p has been set, every assertion
\* is proved if and only if max_p <= risk_limit.
C2_ProvedIffMaxP_Original ==
    \A c \in Contests :
        cont[c].max_p # NoMaxP =>
            (AllProved(c) <=> cont[c].max_p <= cont[c].risk_limit)

\* C2 amended: for every contest whose max_p has been set, max_p <=
\* risk_limit if and only if every assertion's current p_value is <=
\* risk_limit, and then every assertion is proved (proved, being sticky, can
\* also be true while max_p is above the risk limit).
C2_MaxPImpliesProved ==
    \A c \in Contests :
        cont[c].max_p # NoMaxP =>
            /\ (cont[c].max_p <= cont[c].risk_limit) <=>
                 (\A a \in AssertionsOf(c) : asrt[a].p_value <= cont[c].risk_limit)
            /\ (cont[c].max_p <= cont[c].risk_limit) => AllProved(c)

\* both assertions of contest c1 proved by p-values at the risk limit
C2_Witness ==
    /\ Completed
    /\ "c1" \in CalledContests
    /\ cont["c1"].max_p = cont["c1"].risk_limit
    /\ AllProved("c1")

\* C3: after a completed call, each contest's max_p is the largest of its
\* assertions' p-values, its p_values mapping holds those p-values by
\* assertion label, and the returned p_max is the largest max_p.
C3_RollUp ==
    Completed =>
      /\ \A c \in CalledContests :
            /\ cont[c].max_p = SetMax({asrt[a].p_value : a \in AssertionsOf(c)})
            /\ cont[c].p_values = [a \in AssertionsOf(c) |-> asrt[a].p_value]
      /\ result.p_max = SetMax({0} \cup {cont[c].max_p : c \in CalledContests})

\* a completed call on both contests whose largest p-value is that of the
\* first assertion of the first contest
C3_Witness ==
    /\ Completed
    /\ call.contests = <<"c1", "c2">>
    /\ asrt["A v B"].p_value = 20
    /\ asrt["A v C"].p_value = DefaultRiskLimit
    /\ cont["c2"].max_p = DefaultRiskLimit
    /\ result.p_max = 20

\* the cards of the sample that enter a comparison contest's sequence
KeptIndices(c, use_style, cvr_sample) ==
    {i \in 1..Len(cvr_sample) : ~use_style \/ HasContest(cvr_sample[i], c)}

\* the elements of a set of integers in increasing order
SetToSeq(S) ==
    [k \in 1..Cardinality(S) |->
        CHOOSE x \in S : Cardinality({y \in S : y < x}) = k - 1]

\* the sequence the claim describes for assertion a of contest c
ClaimedData(c, a) ==
    IF cont[c].audit_type = BALLOT_COMPARISON
    THEN LET kept == SetToSeq(KeptIndices(c, cont[c].use_style, call.cvr_sample))
         IN  [k \in 1..Len(kept) |->
                 OverstatementAssorter(a, asrt[a].margin,
                     call.mvr_sample[kept[k]], call.cvr_sample[kept[k]],
                     cont[c].use_style).value]
    ELSE [i \in 1..Len(call.mvr_sample) |-> Assort(a, call.mvr_sample[i])]

\* C4: for the first contest of a call with paired samples and numeric
\* margins, the test of every assertion is handed the overstatement_assorter
\* values of the kept cards (BALLOT_COMPARISON) or the raw assort values of
\* the mvrs (POLLING); any other audit type is an error.
C4_DataFed ==
    (/\ PValuesCalled
     /\ call.contests # <<>>
     /\ call.cvr_given
     /\ Len(call.cvr_sample) = Len(call.mvr_sample)) =>
        LET c == call.contests[1]
        IN  IF cont[c].audit_type \in AUDIT_TYPES
            THEN \A a \in AssertionsOf(c) :
                    (cont[c].audit_type = BALLOT_COMPARISON => IsNum(asrt[a].margin))
                    => (a \in DOMAIN fed /\ fed[a] = ClaimedData(c, a))
            ELSE result.status = "NotImplementedError"

\* C5: a call whose cvr_sample and mvr_sample differ in length fails and
\* changes no contest and no assertion.
C5_LengthMismatch ==
    [][(/\ call'.op = "set_all_p_values"
        /\ call'.cvr_given
        /\ Len(call'.cvr_sample) # Len(call'.mvr_sample))
       => (/\ result'.status = "AssertionError"
           /\ asrt' = asrt
           /\ cont' = cont)]_vars

\* a failed call on contests that an earlier call had updated
C5_Witness ==
    /\ PValuesCalled
    /\ call.cvr_given
    /\ Len(call.cvr_sample) # Len(call.mvr_sample)
    /\ result.status = "AssertionError"
    /\ "c1" \in CalledContests
    /\ cont["c1"].max_p # NoMaxP
    /\ asrt["A v B"].p_history # <<>>

\* C6: set_all_p_values leaves every assertion's margin as it was; only
\* find_margin changes a margin.
C6_MarginFrame ==
    [][(\E a \in AllAssertions : asrt'[a].margin # asrt[a].margin)
       => call'.op = "find_margin"]_vars

\* a completed call that updated an assertion whose margin find_margin had
\* set
C6_Witness ==
    /\ Completed
    /\ "c2" \in CalledContests
    /\ IsNum(asrt["A v all"].margin)
    /\ asrt["A v all"].proved
    /\ "A v all" \in DOMAIN fed

-----------------------------------------------------------------------------
(* Assorter.__init__ and the scorer it installs.  An indicator is a map    *)
(* from cards to {0, 1}; an argument that is not given is None.            *)

\* the cards an assorter is applied to
AssortCards == {BlankBallot, BallotA, BallotB1}

Indicators == [AssortCards -> {0, 1}]

\* a direct scorer a caller may pass as assort
HalfScorer == [b \in AssortCards |-> Half]

\* upper bounds a caller may pass; 1 is the default
UpperBounds == {Half, One, Two}

\* mutant: winner and loser exchanged
IndicatorAssort_Swapped(winner, loser, b) == Frac(loser[b] - winner[b] + 1, 2)

\* line 795: lambda cvr: (self.winner(cvr) - self.loser(cvr) + 1)/2
IndicatorAssort(winner, loser, b) == Frac(winner[b] - loser[b] + 1, 2)

\* lines 785-795: the object built, or the assertion that fails
NewAssorter(assort, winner, loser, upper_bound) ==
    IF assort # None
    THEN [status |-> "ok", winner |-> winner, loser |-> loser,
          upper_bound |-> upper_bound, assort |-> assort, derived |-> FALSE]
    ELSE IF winner = None \/ loser = None
    THEN [status |-> "AssertionError", winner |-> winner, loser |-> loser,
          upper_bound |-> upper_bound, assort |-> None, derived |-> FALSE]
    ELSE [status |-> "ok", winner |-> winner, loser |-> loser,
          upper_bound |-> upper_bound, assort |-> None, derived |-> TRUE]

\* self.assort(cvr) on a constructed object
AssorterAssort(obj, b) ==
    IF obj.derived THEN IndicatorAssort(obj.winner, obj.loser, b)
    ELSE obj.assort[b]

-----------------------------------------------------------------------------
(* SpecAssorter: an Assorter is constructed from every combination of      *)
(* arguments and then applied to a card.                                   *)

InitAssorter ==
    /\ \E assort \in {None, HalfScorer} :
       \E winner \in Indicators \cup {None}, loser \in Indicators \cup {None} :
       \E upper_bound \in UpperBounds :
          call = [op |-> "args", assort |-> assort, winner |-> winner,
                  loser |-> loser, upper_bound |-> upper_bound,
                  cvr |-> BlankBallot]
    /\ asrt = None
    /\ cont = None
    /\ result = Ok(None)
    /\ fed = EmptyMap

ConstructAssorter ==
    /\ call.op = "args"
    /\ \E obj \in {NewAssorter(call.assort, call.winner, call.loser,
                               call.upper_bound)} :
          /\ asrt' = IF obj.status = "ok" THEN obj ELSE None
          /\ result' = IF obj.status = "ok" THEN Ok(None) ELSE Raise(obj.status)
    /\ call' = [call EXCEPT !.op = "Assorter"]
    /\ UNCHANGED <<cont, fed>>

CallAssort ==
    /\ call.op = "Assorter"
    /\ asrt # None
    /\ \E b \in AssortCards :
          /\ call' = [call EXCEPT !.op = "assort", !.cvr = b]
          /\ result' = Ok(AssorterAssort(asrt, b))
    /\ UNCHANGED <<asrt, cont, fed>>

NextAssorter == ConstructAssorter \/ CallAssort

SpecAssorter == InitAssorter /\ [][NextAssorter]_vars

-----------------------------------------------------------------------------
(* Claims about Assorter (SpecAssorter).                                   *)

\* assort was applied to an assorter built from winner and loser alone
DerivedAssortCalled == call.op = "assort" /\ call.assort = None

\* the value the claim gives, by cases on the two indicators
ClaimedIndicatorValue(w, l) ==
    IF w = l THEN Half ELSE IF w = 1 THEN One ELSE Zero

-----------------------------------------------------------------------------
(* Assertion.assorter_sum, and the aggregates as operations.               *)

\* numpy's sum: 0 for an empty list
AssorterSum(a, cvr_list, use_style) ==
    LET kept == FilterStyle(cvr_list, ContestOf(a), use_style)
    IN  RSum([i \in 1..Len(kept) |-> Assort(a, kept[i])])

-----------------------------------------------------------------------------
(* SpecMargin: assorter_mean, assorter_sum, assorter_margin and            *)
(* find_margin applied by every assertion to every CVR list of at most     *)
(* MaxCvrList cards of its contest, and to the reported tally of a         *)
(* two-candidate race: 100 cards, 60 for A and 40 for B.                   *)

\* a card of contest c1 alone with one mark
VoteCard(cand) ==
    [phantom |-> FALSE, has |-> [c \in Contests |-> c = "c1"],
     marks |-> [c \in Contests |-> IF c = "c1" THEN {cand} ELSE {}]]

TallyList == [i \in 1..100 |-> IF i <= 60 THEN VoteCard("A") ELSE VoteCard("B")]

CvrLists(a) ==
    SeqsUpTo(BallotsFor(ContestOf(a)), MaxCvrList)
        \cup (IF a = "A v B" THEN {TallyList} ELSE {})

InitMargin ==
    /\ \E a \in AllAssertions :
       \E cvr_list \in CvrLists(a) :
       \E us \in BOOLEAN :
          call = [NoCall EXCEPT !.a = a, !.cvr_list = cvr_list, !.use_style = us]
    /\ asrt = [a \in AllAssertions |-> NewAssertion(None)]
    /\ cont = [c \in Contests |-> NewContest(BALLOT_COMPARISON, TRUE)]
    /\ result = Ok(None)
    /\ fed = EmptyMap

CallAssorterMean ==
    /\ call.op = "new"
    /\ call' = [call EXCEPT !.op = "assorter_mean"]
    /\ result' = Ok(AssorterMean(call.a, call.cvr_list, call.use_style))
    /\ UNCHANGED <<asrt, cont, fed>>

CallAssorterSum ==
    /\ call.op = "new"
    /\ call' = [call EXCEPT !.op = "assorter_sum"]
    /\ result' = Ok(AssorterSum(call.a, call.cvr_list, call.use_style))
    /\ UNCHANGED <<asrt, cont, fed>>

CallAssorterMargin ==
    /\ call.op = "new"
    /\ call' = [call EXCEPT !.op = "assorter_margin"]
    /\ result' = Ok(AssorterMargin(call.a, call.cvr_list, call.use_style))
    /\ UNCHANGED <<asrt, cont, fed>>

CallFindMarginOn ==
    /\ call.op = "new"
    /\ FindMargin(call.a, call.cvr_list, call.use_style)

NextMargin ==
    CallAssorterMean \/ CallAssorterSum \/ CallAssorterMargin \/ CallFindMarginOn

SpecMargin == InitMargin /\ [][NextMargin]_vars

-----------------------------------------------------------------------------
(* Claims about the aggregates and find_margin (SpecMargin).               *)

\* the indices of the supplied list the claim says are aggregated
ClaimedKept ==
    KeptIndices(ContestOf(call.a), call.use_style, call.cvr_list)

\* their scores, in list order
ClaimedScores ==
    LET kept == SetToSeq(ClaimedKept)
    IN  [k \in 1..Len(kept) |-> Assort(call.a, call.cvr_list[kept[k]])]

ClaimedMean == RDiv(RSum(ClaimedScores), RInt(Len(ClaimedScores)))

\* the number of aggregated cards with a vote for cand
VotesFor(cand) ==
    Cardinality({i \in ClaimedKept :
        GetVoteFor(call.cvr_list[i], ContestOf(call.a), cand) = 1})

\* C12: assorter_sum and assorter_mean aggregate the scores of exactly the
\* cards of the list that contain the contest when use_style is true, and
\* of every card of the list when it is false (the mean of no card is NaN).
C12_StyleFilter ==
    /\ call.op = "assorter_sum" => result.value = RSum(ClaimedScores)
    /\ call.op = "assorter_mean" =>
          result.value = IF ClaimedScores = <<>> THEN NaN ELSE ClaimedMean

\* use_style drops the first card of two, which lacks the contest, so that
\* the mean is the score of the second card alone
C12_Witness ==
    /\ call.op = "assorter_mean"
    /\ call.use_style
    /\ Len(call.cvr_list) = 2
    /\ ~HasContest(call.cvr_list[1], ContestOf(call.a))
    /\ HasContest(call.cvr_list[2], ContestOf(call.a))
    /\ Assort(call.a, call.cvr_list[1]) # Assort(call.a, call.cvr_list[2])
    /\ result.value = Assort(call.a, call.cvr_list[2])

\* C13: over the aggregated cards, assorter_margin is 2 * mean - 1; it is 0
\* when every card scores 1/2; and for a plurality assertion with W votes
\* for the winner and L for the loser among N cards it is (W - L)/N.
C13_MarginFromMean ==
    (call.op = "assorter_margin" /\ ClaimedScores # <<>>) =>
        /\ result.value = RSub(RMul(Two, ClaimedMean), One)
        /\ (\A k \in 1..Len(ClaimedScores) : ClaimedScores[k] = Half)
              => result.value = Zero
        /\ AssorterOf(call.a).kind = "PLURALITY" =>
              result.value = Frac(VotesFor(AssorterOf(call.a).winner)
                                    - VotesFor(AssorterOf(call.a).loser),
                                  Cardinality(ClaimedKept))

\* 60 votes for the winner, 40 for the loser, 100 cards: margin 1/5
C13_Witness ==
    /\ call.op = "assorter_margin"
    /\ call.a = "A v B"
    /\ Len(call.cvr_list) = 100
    /\ VotesFor("A") = 60
    /\ VotesFor("B") = 40
    /\ result.value = <<1, 5>>

\* C14: find_margin on a list whose assorter mean is below 1/2 completes
\* and stores the margin 2 * mean - 1.
C14_WarnsNotFails ==
    (/\ call.op = "find_margin"
     /\ ClaimedScores # <<>>
     /\ RLt(ClaimedMean, Half)) =>
        /\ result.status = "ok"
        /\ asrt[call.a].margin = RSub(RMul(Two, ClaimedMean), One)

-----------------------------------------------------------------------------
(* Assertion.set_all_margins.                                              *)

\* np.infty
Infty == <<1, 0>>

\* a contest whose margins attribute has not been assigned
NoMargins == [unset |-> None]

\* find_margin as a call: with cvr_list left at its default None, the list
\* comprehension of assorter_mean (line 125) iterates over None and raises
\* TypeError
FindMarginCall(a, cvr_given, cvr_list, use_style) ==
    IF ~cvr_given THEN Raise("TypeError")
    ELSE FindMarginResult(a, cvr_list, use_style)

\* line 660 calls find_margin(use_style=use_style): cvr_list is not passed
MarginListGiven == FALSE

\* lines 660-662 for assertion a of contest c.  find_margin returns nothing,
\* so were it to complete, None would overwrite the margin it had stored,
\* enter the margins mapping, and make min(min_margin, None) a TypeError.
MarginStep(st, c, a, cvr_list, use_style) ==
    LET r == FindMarginCall(a, MarginListGiven, cvr_list, use_style)
    IN  IF r.status # "ok" THEN [st EXCEPT !.status = r.status]
        ELSE [st EXCEPT !.asrt[a].margin = None,
                        !.cont[c].margins = MapPut(@, a, None),
                        !.status = "TypeError"]

\* the loop of lines 659-662 over the assertions as of contest c
RECURSIVE MarginAssertions(_, _, _, _, _)
MarginAssertions(st, c, as, cvr_list, use_style) ==
    IF as = <<>> \/ st.status # "ok" THEN st
    ELSE MarginAssertions(MarginStep(st, c, Head(as), cvr_list, use_style),
                          c, Tail(as), cvr_list, use_style)

\* the loop of lines 657-662 over the contests cs
RECURSIVE MarginContests(_, _, _, _)
MarginContests(st, cs, cvr_list, use_style) ==
    IF cs = <<>> \/ st.status # "ok" THEN st
    ELSE MarginContests(
             MarginAssertions([st EXCEPT !.cont[Head(cs)].margins = EmptyMap],
                              Head(cs), st.cont[Head(cs)].assertions,
                              cvr_list, use_style),
             Tail(cs), cvr_list, use_style)

\* the call just made repeats the one before it
SameCall(cs, cvr_list, use_style) ==
    /\ call.op = "set_all_margins"
    /\ call.contests = cs
    /\ call.cvr_list = cvr_list
    /\ call.use_style = use_style

SetAllMargins(cs, cvr_list, use_style) ==
    \E st \in {MarginContests([asrt |-> asrt, cont |-> cont,
                               min_margin |-> Infty, status |-> "ok"],
                              cs, cvr_list, use_style)} :
        /\ asrt' = st.asrt
        /\ cont' = st.cont
        /\ result' = IF st.status = "ok" THEN Ok(st.min_margin)
                     ELSE Raise(st.status)
        /\ call' = [op |-> "set_all_margins", contests |-> cs,
                    cvr_list |-> cvr_list, use_style |-> use_style,
                    repeat |-> SameCall(cs, cvr_list, use_style),
                    before |-> [asrt |-> asrt, cont |-> cont,
                                result |-> result]]
        /\ fed' = EmptyMap

-----------------------------------------------------------------------------
(* SpecBatch: set_all_margins called any number of times on contests whose *)
(* assertions mappings are filled or empty.                                *)

\* a contest with its assertions mapping and no margins attribute yet
BatchContest(c, filled) ==
    [audit_type |-> BALLOT_COMPARISON, use_style |-> TRUE,
     risk_limit |-> DefaultRiskLimit, margins |-> NoMargins,
     assertions |-> IF filled THEN AssertionSeq(c) ELSE <<>>]

InitBatch ==
    /\ \E filled \in [Contests -> BOOLEAN] :
          cont = [c \in Contests |-> BatchContest(c, filled[c])]
    /\ asrt = [a \in AllAssertions |-> NewAssertion(None)]
    /\ call = [op |-> "new"]
    /\ result = Ok(None)
    /\ fed = EmptyMap

CallSetAllMargins ==
    \E cs \in ContestOrders :
    \E cvr_list \in SeqsUpTo({BallotA, BallotB1}, MaxCvrList) :
    \E use_style \in BOOLEAN :
        SetAllMargins(cs, cvr_list, use_style)

NextBatch == CallSetAllMargins

SpecBatch == InitBatch /\ [][NextBatch]_vars

-----------------------------------------------------------------------------
(* Claims about set_all_margins (SpecBatch).                               *)

MarginsCalled == call.op = "set_all_margins"

\* the assertions of the contests of the call
CalledAssertions ==
    UNION {Range(cont[c].assertions) : c \in Range(call.contests)}

\* the least of a nonempty set of rationals
RMin(S) == CHOOSE x \in S : \A y \in S : RLe(x, y)

\* C15: set_all_margins stores, for every assertion of every contest, the
\* margin computed from cvr_list on the assertion and in the contest's
\* margins mapping, and returns the least of them.
C15_AllMarginsStored ==
    (MarginsCalled /\ CalledAssertions # {}) =>
        /\ result.status = "ok"
        /\ \A c \in Range(call.contests) :
              /\ DOMAIN cont[c].margins = Range(cont[c].assertions)
              /\ \A a \in Range(cont[c].assertions) :
                    /\ asrt[a].margin =
                          AssorterMargin(a, call.cvr_list, call.use_style)
                    /\ cont[c].margins[a] = asrt[a].margin
        /\ result.value = RMin({asrt[a].margin : a \in CalledAssertions})

\* C16: a second set_all_margins call with the same contests, CVR list and
\* use_style returns the minimum margin the first returned and leaves every
\* assertion margin and every margins mapping as the first left them.
C16_Idempotent ==
    (MarginsCalled /\ call.repeat /\ CalledAssertions # {}) =>
        /\ result.status = "ok"
        /\ result = call.before.result
        /\ \A a \in AllAssertions : asrt[a].margin = call.before.asrt[a].margin
        /\ \A c \in Contests : cont[c].margins = call.before.cont[c].margins

-----------------------------------------------------------------------------
(* The assertion factories: make_plurality_assertions,                     *)
(* make_supermajority_assertion, make_assertions_from_json and             *)
(* make_all_assertions.  A mapping of assertions is keyed by the pair      *)
(* <<winner, loser>> that stands for the label winner + ' v ' + loser.     *)

PLURALITY == "PLURALITY"
SUPERMAJORITY == "SUPERMAJORITY"
IRV == "IRV"
\* a social choice function the code does not name
APPROVAL == "APPROVAL"

WINNER_ONLY == "WINNER_ONLY"
IRV_ELIMINATION == "IRV_ELIMINATION"

\* the parameters of Assorter.__init__ (lines 764-766)
AssorterParams == {"contest_id", "assort", "winner", "loser", "upper_bound"}

\* the parameters of make_plurality_assertions (lines 433-434)
PluralityParams == {"contest", "winners", "losers"}

\* the parameters of make_supermajority_assertion (lines 469-470)
SupermajorityParams == {"contest", "winner", "losers", "test", "estim"}

\* the parameters of make_assertions_from_json (lines 525-528)
JsonParams == {"contest", "candidates", "json_assertions", "test", "estim"}

\* Python's binding of keyword arguments: a keyword that names no parameter
\* is a TypeError
Accepts(params, keywords) == keywords \subseteq params

\* lines 461-465: Assertion(contest.id, Assorter(contest=contest,
\* assort=..., upper_bound=1), test=_test)
PluralityAssertion(contest_id, winr, losr) ==
    IF ~Accepts(AssorterParams, {"contest", "assort", "upper_bound"})
    THEN Raise("TypeError")
    ELSE Ok([contest |-> contest_id, kind |-> PLURALITY, winner |-> winr,
             loser |-> losr, upper_bound |-> One])

\* the loops of lines 456-465 from pair (i, j) on, with the mapping built so
\* far
RECURSIVE PluralityLoop(_, _, _, _, _, _)
PluralityLoop(contest_id, winners, losers, i, j, assertions) ==
    IF i > Len(winners) THEN Ok(assertions)
    ELSE IF j > Len(losers)
    THEN PluralityLoop(contest_id, winners, losers, i + 1, 1, assertions)
    ELSE LET r == PluralityAssertion(contest_id, winners[i], losers[j])
         IN  IF r.status # "ok" THEN r
             ELSE PluralityLoop(contest_id, winners, losers, i, j + 1,
                      MapPut(assertions, <<winners[i], losers[j]>>, r.value))

MakePluralityAssertions(contest_id, winners, losers) ==
    PluralityLoop(contest_id, winners, losers, 1, 1, EmptyMap)

\* lines 511-522; share_to_win is None unless the contest was given one
MakeSupermajorityAssertion(contest_id, share_to_win, winner, losers) ==
    IF share_to_win = None THEN Raise("TypeError")
    ELSE IF share_to_win = Zero THEN Raise("ZeroDivisionError")
    ELSE IF ~Accepts(AssorterParams, {"contest", "assort", "upper_bound"})
    THEN Raise("TypeError")
    ELSE Ok(MapPut(EmptyMap, <<winner, "all">>,
                [contest |-> contest_id, kind |-> SUPERMAJORITY,
                 winner |-> winner, loser |-> "all",
                 upper_bound |-> RDiv(One, RMul(Two, share_to_win))]))

\* lines 552-588 when contest is the key of the contests dict, as
\* make_all_assertions passes it: the first assertion of a known type reads
\* contest.id of the key (AttributeError); for an unknown type the message
\* of line 587 names the undefined assertn (NameError)
MakeAssertionsFromJson(json_assertions) ==
    IF json_assertions = <<>> THEN Ok(EmptyMap)
    ELSE IF Head(json_assertions) \in {WINNER_ONLY, IRV_ELIMINATION}
    THEN Raise("AttributeError")
    ELSE Raise("NameError")

\* Contest.assertions before any mapping is assigned (assertions=None)
NoAssertions == [unset |-> None]

\* line 613: the candidates that are not reported winners, in list order
RECURSIVE Losers(_, _)
Losers(candidates, winrs) ==
    IF candidates = <<>> THEN <<>>
    ELSE (IF Head(candidates) \in Range(winrs) THEN <<>>
          ELSE <<Head(candidates)>>) \o Losers(Tail(candidates), winrs)

\* lines 616-630 for the contest record k stored under key c: the mapping to
\* assign, or the exception.  The plurality and supermajority factories are
\* called with keywords they do not declare; winrs[0] is evaluated before
\* the supermajority call is bound; a Contest has no assertion_json
\* attribute unless the caller added one.
DispatchContest(c, k) ==
    LET winrs == k.reported_winners
        losrs == Losers(k.candidates, winrs)
    IN  IF k.choice_function = PLURALITY
        THEN IF ~Accepts(PluralityParams,
                         {"contest", "winners", "losers", "test", "estim"})
             THEN Raise("TypeError")
             ELSE MakePluralityAssertions(c, winrs, losrs)
        ELSE IF k.choice_function = SUPERMAJORITY
        THEN IF winrs = <<>> THEN Raise("IndexError")
             ELSE IF ~Accepts(SupermajorityParams,
                              {"contest", "winners", "losers", "share_to_win",
                               "test", "estim"})
             THEN Raise("TypeError")
             ELSE MakeSupermajorityAssertion(c, k.share_to_win, winrs[1], losrs)
        ELSE IF k.choice_function = IRV
        THEN IF ~k.has_assertion_json THEN Raise("AttributeError")
             ELSE IF ~Accepts(JsonParams,
                              {"contest", "candidates", "json_assertions",
                               "test", "estim"})
             THEN Raise("TypeError")
             ELSE MakeAssertionsFromJson(k.assertion_json)
        ELSE Raise("NotImplementedError")

\* the loop of lines 610-630 over the keys cs, on the contests kt
RECURSIVE MakeAllLoop(_, _)
MakeAllLoop(kt, cs) ==
    IF cs = <<>> THEN [cont |-> kt, status |-> "ok"]
    ELSE LET r == DispatchContest(Head(cs), kt[Head(cs)])
         IN  IF r.status # "ok" THEN [cont |-> kt, status |-> r.status]
             ELSE MakeAllLoop([kt EXCEPT ![Head(cs)].assertions = r.value],
                              Tail(cs))

MakeAllAssertions(cs) ==
    \E st \in {MakeAllLoop(cont, cs)} :
        /\ cont' = st.cont
        /\ result' = IF st.status = "ok"
                     THEN [status |-> "ok", value |-> TRUE, p_max |-> 0]
                     ELSE Raise(st.status)
        /\ call' = [op |-> "make_all_assertions", contests |-> cs]
        /\ UNCHANGED <<asrt, fed>>

-----------------------------------------------------------------------------
(* SpecMake: the factories called on contests of every choice function.    *)

\* Contest(choice_function=scf, candidates=[A, B, C], reported_winners=
\* winrs, share_to_win=...), with assertion_json added by the caller or not
MakeContest(scf, winrs, has_json, json) ==
    [choice_function |-> scf, candidates |-> <<"A", "B", "C">>,
     reported_winners |-> winrs,
     share_to_win |-> IF scf = SUPERMAJORITY THEN ShareToWin ELSE None,
     has_assertion_json |-> has_json, assertion_json |-> json,
     assertions |-> NoAssertions]

JsonLists == {<<>>, <<WINNER_ONLY>>, <<IRV_ELIMINATION>>, <<"UNKNOWN">>}

ContestConfigs ==
    {MakeContest(scf, winrs, FALSE, <<>>) :
        scf \in {PLURALITY, SUPERMAJORITY, IRV, APPROVAL},
        winrs \in {<<>>, <<"A">>}}
    \cup {MakeContest(IRV, <<"A">>, TRUE, json) : json \in JsonLists}

InitMake ==
    /\ cont \in [Contests -> ContestConfigs]
    /\ asrt = EmptyMap
    /\ call = [op |-> "new"]
    /\ result = Ok(None)
    /\ fed = EmptyMap

CallMakePlurality ==
    \E c \in Contests :
    \E winners \in {<<>>, <<"A">>, <<"A", "B">>} :
    \E losers \in {<<>>, <<"C">>} :
        /\ call' = [op |-> "make_plurality_assertions", contest |-> c,
                    winners |-> winners, losers |-> losers]
        /\ result' = MakePluralityAssertions(c, winners, losers)
        /\ UNCHANGED <<asrt, cont, fed>>

CallMakeSupermajority ==
    \E c \in Contests :
    \E losers \in {<<>>, <<"B", "C">>} :
        /\ call' = [op |-> "make_supermajority_assertion", contest |-> c,
                    winner |-> "A", losers |-> losers]
        /\ result' = MakeSupermajorityAssertion(c, cont[c].share_to_win,
                                                "A", losers)
        /\ UNCHANGED <<asrt, cont, fed>>

CallMakeAll == \E cs \in ContestOrders : MakeAllAssertions(cs)

NextMake == CallMakePlurality \/ CallMakeSupermajority \/ CallMakeAll

SpecMake == InitMake /\ [][NextMake]_vars

-----------------------------------------------------------------------------
(* Claims about the factories (SpecMake).                                  *)

\* C17: make_plurality_assertions returns one assertion for each (winner,
\* loser) pair and no other, each with the plurality scorer of that pair
\* and upper bound 1.
C17_PluralityAssertions ==
    call.op = "make_plurality_assertions" =>
        /\ result.status = "ok"
        /\ DOMAIN result.value = Range(call.winners) \X Range(call.losers)
        /\ \A wl \in DOMAIN result.value :
              /\ result.value[wl].kind = PLURALITY
              /\ result.value[wl].winner = wl[1]
              /\ result.value[wl].loser = wl[2]
              /\ result.value[wl].upper_bound = One

\* C18: for a contest with a positive share_to_win,
\* make_supermajority_assertion returns exactly one assertion, with the
\* supermajority scorer and upper bound 1/(2 * share_to_win).
C18_SupermajorityAssertion ==
    (/\ call.op = "make_supermajority_assertion"
     /\ IsNum(cont[call.contest].share_to_win)
     /\ RLt(Zero, cont[call.contest].share_to_win)) =>
        /\ result.status = "ok"
        /\ DOMAIN result.value = {<<call.winner, "all">>}
        /\ result.value[<<call.winner, "all">>].kind = SUPERMAJORITY
        /\ result.value[<<call.winner, "all">>].upper_bound =
              RDiv(One, RMul(Two, cont[call.contest].share_to_win))

\* C19: make_all_assertions assigns an assertions mapping to every contest
\* passed and returns True when every choice function is PLURALITY,
\* SUPERMAJORITY or IRV, and fails with NotImplementedError otherwise.
C19_Dispatch ==
    call.op = "make_all_assertions" =>
        IF \A c \in Range(call.contests) :
              cont[c].choice_function \in {PLURALITY, SUPERMAJORITY, IRV}
        THEN /\ result.status = "ok"
             /\ result.value = TRUE
             /\ \A c \in Range(call.contests) :
                   cont[c].assertions # NoAssertions
        ELSE result.status = "NotImplementedError"

-----------------------------------------------------------------------------
(* Assertion.sample_size.  The estimator test.sample_size belongs to the   *)
(* sequential test; the estimate it returns is an input of the call.       *)

\* Assertion.sample_size before any estimate is stored (sample_size=None)
NoSampleSize == -1

\* lines 352-354: a margin that is None or 0 sends the call to
\* find_margin(cvrs, ...) with the undefined name cvrs; otherwise the value
\* is (1 - overs/u)/(2 - margin/u)
MakeOverstatement(a, margin, overs) ==
    IF margin = None \/ margin = Zero THEN Raise("NameError")
    ELSE OverstatementScale(overs, UpperBound(a), margin)

\* the data argument: None, a nonempty list, or a numpy array of several
\* observations, whose truth value is a ValueError
DataKinds == {"None", "list", "array"}

\* lines 413-430 for assertion a with the stored margin, a contest of the
\* given audit type, the data argument, and est the estimator's answer:
\* the exception that ends the call.  The estimate is bound to the local
\* name sample_size, and lines 429-430 read the undefined name sam_size;
\* without data, a polling audit reads the attribute self.u and every
\* other audit reads self.N, neither of which an Assertion has.
SampleSizeResult(a, margin, audit_type, data, est) ==
    IF margin = None THEN Raise("TypeError")
    ELSE IF margin = NaN \/ ~RLt(Zero, margin) THEN Raise("AssertionError")
    ELSE IF data = "array" THEN Raise("ValueError")
    ELSE IF data = "list" THEN Raise("NameError")
    ELSE IF audit_type = POLLING THEN Raise("AttributeError")
    ELSE IF MakeOverstatement(a, margin, Zero).status # "ok"
    THEN MakeOverstatement(a, margin, Zero)
    ELSE IF MakeOverstatement(a, margin, One).status # "ok"
    THEN MakeOverstatement(a, margin, One)
    ELSE Raise("AttributeError")

\* sample_size as an operation: no path reaches the assignment of line 429
\* (the rate argument enters small_rate at lines 422-423, which no later
\* line lives to use; no population reaches the estimator, so fed stays as
\* it is)
SampleSize(a, data, rate, est) ==
    /\ result' = SampleSizeResult(a, asrt[a].margin,
                                  cont[ContestOf(a)].audit_type, data, est)
    /\ call' = [op |-> "sample_size", a |-> a, data |-> data, rate |-> rate,
                est |-> est, before |-> asrt[a].sample_size]
    /\ UNCHANGED <<asrt, cont, fed>>

-----------------------------------------------------------------------------
(* SpecSize: sample_size called on assertions with every margin that       *)
(* assorter_margin yields on CVR lists of at most MaxCvrList cards, or no  *)
(* margin, for polling and comparison contests.                            *)

SizeMargins(a) ==
    {AssorterMargin(a, l, FALSE) :
        l \in SeqsUpTo(BallotsFor(ContestOf(a)), MaxCvrList)} \cup {None}

\* estimates the estimator may return
Estimates == {20, 30}

\* the rate argument: left at None, or given
Rates == {None, <<1, 3>>}

InitSize ==
    /\ \E a \in AllAssertions :
       \E m \in SizeMargins(a) :
       \E n \in {NoSampleSize} \cup Estimates :
          asrt = [x \in AllAssertions |->
                    [sample_size |-> IF x = a THEN n ELSE NoSampleSize]
                        @@ NewAssertion(IF x = a THEN m ELSE None)]
    /\ \E t \in AUDIT_TYPES :
          cont = [c \in Contests |-> NewContest(t, TRUE)]
    /\ call = [op |-> "new"]
    /\ result = Ok(None)
    /\ fed = EmptyMap

CallSampleSize ==
    \E a \in AllAssertions :
    \E data \in DataKinds :
    \E rate \in Rates :
    \E est \in Estimates :
        SampleSize(a, data, rate, est)

NextSize == CallSampleSize

SpecSize == InitSize /\ [][NextSize]_vars

-----------------------------------------------------------------------------
(* Claims about sample_size (SpecSize).                                    *)

SizeCalled == call.op = "sample_size"

\* C20: with a zero or negative margin sample_size fails and leaves the
\* assertion's sample_size as it was; with a positive margin it returns
\* the estimator's estimate and stores it as the assertion's sample_size.
C20_SampleSize ==
    (SizeCalled /\ IsNum(asrt[call.a].margin)) =>
        IF RLe(asrt[call.a].margin, Zero)
        THEN /\ result.status = "AssertionError"
             /\ asrt[call.a].sample_size = call.before
        ELSE /\ result.status = "ok"
             /\ result.p_max = call.est
             /\ asrt[call.a].sample_size = call.est

\* the number of cards of a contest (Contest.cards)
ContestCards == 4

\* the rate of small values the claim gives
ClaimedRate ==
    IF call.rate # None THEN call.rate
    ELSE RDiv(RSub(One, asrt[call.a].margin), Two)

\* the small and large values the claim gives
ClaimedSmall ==
    IF cont[ContestOf(call.a)].audit_type = POLLING THEN Zero
    ELSE OverstatementScale(One, UpperBound(call.a), asrt[call.a].margin).value

ClaimedLarge ==
    IF cont[ContestOf(call.a)].audit_type = POLLING THEN UpperBound(call.a)
    ELSE OverstatementScale(Zero, UpperBound(call.a), asrt[call.a].margin).value

\* the population the claim describes: position k (from 0) is small exactly
\* when the rate is positive and k is a multiple of floor(1/rate)
ClaimedPopulation ==
    [i \in 1..ContestCards |->
        IF RLt(Zero, ClaimedRate)
           /\ (i - 1) % (ClaimedRate[2] \div ClaimedRate[1]) = 0
        THEN ClaimedSmall ELSE ClaimedLarge]

\* C21: called without data on an assertion with a positive margin (and,
\* for a comparison audit, with a rate), sample_size hands the estimator a
\* population of as many values as the contest has cards, small at the
\* multiples of floor(1/rate) and large elsewhere.
C21_SyntheticPopulation ==
    (/\ SizeCalled
     /\ call.data = "None"
     /\ IsNum(asrt[call.a].margin)
     /\ RLt(Zero, asrt[call.a].margin)
     /\ (cont[ContestOf(call.a)].audit_type = POLLING \/ call.rate # None)) =>
        /\ call.a \in DOMAIN fed
        /\ fed[call.a] = ClaimedPopulation

-----------------------------------------------------------------------------
(* Contest.initial_sample_size and Contest.new_sample_size.  The contests  *)
(* argument is a dict of Contest objects keyed by contest identifier, as   *)
(* in the Assertion batch operations.  A card of a CVR list is a ballot    *)
(* with its sampled flag (CVR.in_sample) and its sampling weight p.        *)

\* lines 950-964.  Line 951 assigns c.sample_size on c, a key of the dict:
\* a contest identifier has no such attribute (AttributeError).  With no
\* contest the loop is skipped and line 955 reads use_style, which is
\* neither a parameter nor a name of the module (NameError).
InitialSampleSizeResult(cs) ==
    IF cs # <<>> THEN Raise("AttributeError") ELSE Raise("NameError")

\* initial_sample_size as an operation: est is what each assertion's
\* sample_size would answer; nothing is stored on any path
InitialSampleSize(cs, rate, est) ==
    /\ result' = InitialSampleSizeResult(cs)
    /\ call' = [op |-> "initial_sample_size", contests |-> cs, rate |-> rate,
                est |-> est]
    /\ UNCHANGED <<asrt, cont, fed>>

\* lines 1019-1023: every card's weight set from its sampled flag
MarkSampled(cvr_list) ==
    [i \in 1..Len(cvr_list) |->
        [cvr_list[i] EXCEPT !.p = IF cvr_list[i].sampled THEN One ELSE Zero]]

\* lines 1016-1062 for at least one contest and one replication: the
\* exception that ends the call.  Without a list, use_style is a ValueError
\* (line 1017) and otherwise line 1029 iterates over None (TypeError); with
\* a list, the first pass of the loops reads contests[c]['cards'] at line
\* 1033, and a Contest object cannot be subscripted (TypeError), so the
\* while loop of lines 1047-1050 is not reached.
NewSampleSizeResult(cs, cvr_list_given, use_style, reps) ==
    IF use_style /\ ~cvr_list_given THEN Raise("ValueError")
    ELSE Raise("TypeError")

\* the cvr_list argument as the call leaves it
NewSampleSizeCards(cvr_list, cvr_list_given, use_style) ==
    IF use_style /\ cvr_list_given THEN MarkSampled(cvr_list) ELSE cvr_list

NewSampleSize(cs, mvr_sample, cvr_list, cvr_list_given, use_style, polling, reps) ==
    /\ result' = NewSampleSizeResult(cs, cvr_list_given, use_style, reps)
    /\ call' = [op |-> "new_sample_size", contests |-> cs,
                mvr_sample |-> mvr_sample,
                cvr_list |-> NewSampleSizeCards(cvr_list, cvr_list_given,
                                                use_style),
                cvr_list_given |-> cvr_list_given, use_style |-> use_style,
                polling |-> polling, reps |-> reps]
    /\ UNCHANGED <<asrt, cont, fed>>

-----------------------------------------------------------------------------
(* SpecPlan: the two sample-size planning operations called on the         *)
(* contests c1 and c2, each of ContestCards cards, with any set of         *)
(* assertions already proved; one call from each starting state.           *)

\* the cards of a CVR list: with both contests or with c1 alone, sampled or
\* not, no weight assigned yet
PlanCards ==
    {[cvr |-> b, sampled |-> sm, p |-> None] :
        b \in {BallotA, BallotB1}, sm \in BOOLEAN}

\* replication counts a caller may pass
RepsValues == {1, 2}

InitPlan ==
    /\ \E proved \in SUBSET AllAssertions :
          asrt = [a \in AllAssertions |->
                    [sample_size |-> NoSampleSize]
                        @@ [NewAssertion(<<1, 5>>) EXCEPT !.proved = a \in proved]]
    /\ cont = [c \in Contests |->
                 [cards |-> ContestCards, sample_size |-> NoSampleSize]
                     @@ NewContest(BALLOT_COMPARISON, TRUE)]
    /\ call = [op |-> "new"]
    /\ result = Ok(None)
    /\ fed = EmptyMap

CallInitialSampleSize ==
    /\ call.op = "new"
    /\ \E cs \in ContestOrders :
       \E rate \in Rates :
       \E est \in [AllAssertions -> Estimates] :
          InitialSampleSize(cs, rate, est)

CallNewSampleSize ==
    /\ call.op = "new"
    /\ \E cs \in ContestOrders \ {<<>>} :
       \E mvr_sample \in SeqsUpTo({BallotA}, MaxSample) :
       \E cvr_list_given \in BOOLEAN :
       \E cvr_list \in IF cvr_list_given THEN SeqsUpTo(PlanCards, MaxCvrList)
                       ELSE {<<>>} :
       \E use_style \in BOOLEAN, polling \in BOOLEAN :
       \E reps \in RepsValues :
          NewSampleSize(cs, mvr_sample, cvr_list, cvr_list_given, use_style,
                        polling, reps)

NextPlan == CallInitialSampleSize \/ CallNewSampleSize

SpecPlan == InitPlan /\ [][NextPlan]_vars

-----------------------------------------------------------------------------
(* Claims about the planning operations (SpecPlan).                        *)

\* the greatest of a nonempty set of rationals
RMax(S) == CHOOSE x \in S : \A y \in S : RLe(y, x)

\* the weight the claim gives a card: the greatest sample_size / cards over
\* the called contests on the card, 0 for a card with none of them
ClaimedWeight(card) ==
    RMax({Zero} \cup {Frac(cont[c].sample_size, cont[c].cards) :
                        c \in {x \in Range(call.contests) :
                                 HasContest(card.cvr, x)}})

\* C22: initial_sample_size sets each contest's sample_size to the greatest
\* estimate of its assertions and returns the greatest contest sample_size
\* (without use_style) or the sum of the cards' weights over a CVR list
\* (with use_style).
C22_InitialSampleSize ==
    call.op = "initial_sample_size" =>
        /\ result.status = "ok"
        /\ \A c \in Range(call.contests) :
              cont[c].sample_size =
                  SetMax({call.est[a] : a \in AssertionsOf(c)})
        /\ \/ result.p_max =
                  SetMax({0} \cup {cont[c].sample_size :
                                     c \in Range(call.contests)})
           \/ \E cvr_list \in SeqsUpTo(PlanCards, MaxCvrList) :
                  result.value =
                      RSum([i \in 1..Len(cvr_list) |->
                               ClaimedWeight(cvr_list[i])])

\* C23: new_sample_size, called with a CVR list whenever use_style is set,
\* ends every resampling loop and returns.
C23_ResamplingReturns ==
    (/\ call.op = "new_sample_size"
     /\ (call.use_style => call.cvr_list_given)) =>
        result.status = "ok"

====
